---- MODULE Spec2Model ----
(***************************************************************************)
(* A model of the tree core (TreeImpl) and of the decorations service of   *)
(* the workbench: the Node Store, asynchronous refresh with cancellation,  *)
(* busy marking, and the per-provider decoration cache.                    *)
(***************************************************************************)
EXTENDS Integers, Sequences, FiniteSets, TLC

\* ------------------------------------------------------------------------
\* Bounds
\* ------------------------------------------------------------------------
NObj == 4          \* node objects that can ever exist
MaxKids == 2       \* longest children array resolveChildren returns
NRefresh == 2      \* refresh calls that can be in flight at once
NMarkCalls == 1    \* markAsBusy calls (besides the ones refresh makes)
MaxListeners == 1  \* promises handed to waitUntil by onNodeRefreshed listeners
MaxCalls == 3      \* refresh calls in one run of the two-call specification
NUris == 2         \* URIs decorations are asked for
NSourceIds == 2    \* element ids a TreeSource hands out
NView == 5         \* nodes a shown tree is built from
MaxHistory == 3    \* entries of the navigation history
MaxFetch == 3      \* provideDecorations calls alive at once

Undef == 0
Objs == 1..NObj
Procs == 1..NRefresh
Markers == 1..(NRefresh + NMarkCalls)
CallMarkers == Markers \ Procs

\* node.id: objects 1 and 2 are two distinct node objects with the same id
ObjId(o) == IF o = 2 THEN 1 ELSE o
Ids == {ObjId(o) : o \in Objs}

\* CompositeTreeNode.is: 'children' in node (object 4 is a leaf)
IsComposite(o) == o # Undef /\ o # 4

VARIABLES
  root,             \* TreeImpl._root
  nodes,            \* TreeImpl.nodes: id -> node object
  children,         \* node.children
  parent,           \* node.parent
  previousSibling,  \* node.previousSibling
  nextSibling,      \* node.nextSibling
  busy,             \* node.busy
  busyObserved,     \* truthiness of node.busy last seen by onDidChangeBusy
  calls,            \* refresh calls made so far (counted when two may overlap)
  rpc,              \* position of each refresh call
  rtarget,          \* its `parent`
  rtoken,           \* its cancellationToken
  rpending,         \* listener promises it is still awaiting
  settled,          \* the refresh call that settled in the last step, and how
  rseen,            \* what other operations did while it was in flight
  snapNodes,        \* Node Store when it started
  snapChildren,     \* parent.children when it started
  mstate,           \* position of each doMarkAsBusy call
  mnode,            \* the node it marks
  data,             \* DecorationProviderWrapper.data: uri -> cache slot
  decorations,      \* DecorationProviderWrapper.decorations
  fetches,          \* provideDecorations calls and their tokens
  handler,          \* position of the onDidChange handler
  got,              \* what the last step returned or fired
  sourceNodes,      \* SourceTree: the Node Store's node of each element id
  made,             \* what the last SourceTree refresh started from and was given
  viewChildren,     \* children of each node of the tree a TreeModelImpl shows
  visible,          \* node.visible
  expanded,         \* node.expanded
  selectedNodes,    \* TreeSelectionService.selectedNodes
  selected,         \* node.selected
  did,              \* the last operation on the model
  modelRoot,        \* TreeModelImpl.root
  focusedNode,      \* TreeFocusService.focusedNode
  filteredNodes,    \* TreeSearch.filteredNodes
  history           \* TreeNavigationService: the nodes navigated to, and the cursor

treeVars == <<root, nodes, children, parent, previousSibling, nextSibling,
              busy, busyObserved, calls, rpc, rtarget, rtoken, rpending,
              settled, rseen, snapNodes, snapChildren, mstate, mnode>>

decoVars == <<data, decorations, fetches, handler, got>>

sourceVars == <<sourceNodes, made>>

viewVars == <<viewChildren, visible, expanded, selectedNodes, selected, did>>

moveVars == <<modelRoot, focusedNode, filteredNodes, history>>

widgetVars == <<sourceVars, viewVars, moveVars>>

vars == <<treeVars, decoVars, widgetVars>>

EmptyStore == [i \in Ids |-> Undef]

NoCall == [call |-> 0, exit |-> "none", result |-> Undef, threw |-> FALSE, token |-> "none"]

\* ------------------------------------------------------------------------
\* Node Store maintenance
\* ------------------------------------------------------------------------
RECURSIVE RemoveNode(_, _, _), RemoveEach(_, _, _)
RemoveEach(ns, kids, s) ==
  IF s = <<>> THEN ns
  ELSE RemoveEach(RemoveNode(ns, kids, Head(s)), kids, Tail(s))

RemoveNode(ns, kids, o) ==
  IF o = Undef THEN ns
  ELSE LET ns1 == IF IsComposite(o) THEN RemoveEach(ns, kids, kids[o]) ELSE ns
       IN  [ns1 EXCEPT ![ObjId(o)] = Undef]

SetParent(L, kids, child, i, par) ==
  LET prev == IF i > 1 THEN kids[par][i - 1] ELSE Undef
      next == IF i < Len(kids[par]) THEN kids[par][i + 1] ELSE Undef
      L1 == [L EXCEPT !.parent[child] = par,
                      !.previousSibling[child] = prev,
                      !.nextSibling[child] = next]
      L2 == IF prev # Undef THEN [L1 EXCEPT !.nextSibling[prev] = child] ELSE L1
  IN  IF next # Undef THEN [L2 EXCEPT !.previousSibling[next] = child] ELSE L2

RECURSIVE AddNode(_, _, _), AddEach(_, _, _, _)
AddEach(L, kids, par, i) ==
  IF i > Len(kids[par]) THEN L
  ELSE AddEach(AddNode(SetParent(L, kids, kids[par][i], i, par), kids, kids[par][i]),
               kids, par, i + 1)

AddNode(L, kids, o) ==
  IF o = Undef THEN L
  ELSE LET L1 == [L EXCEPT !.nodes[ObjId(o)] = o]
       IN  IF IsComposite(o) THEN AddEach(L1, kids, o, 1) ELSE L1

RECURSIVE GetRootNode(_)
GetRootNode(o) == IF parent[o] = Undef THEN o ELSE GetRootNode(parent[o])

GetNode(id) == IF id \in Ids THEN nodes[id] ELSE Undef

ValidateNode(raw) == IF raw = Undef THEN Undef ELSE GetNode(ObjId(raw))

Links(ns) == [nodes |-> ns, parent |-> parent,
              previousSibling |-> previousSibling, nextSibling |-> nextSibling]

\* ------------------------------------------------------------------------
\* Busy marking
\* ------------------------------------------------------------------------
DoSetBusy(B, node) ==
  [busy |-> [B.busy EXCEPT ![node] = @ + 1],
   observed |-> IF B.busy[node] = 0 THEN [B.observed EXCEPT ![node] = TRUE]
                ELSE B.observed]

DoResetBusyUnguarded(B, node) ==
  [busy |-> [B.busy EXCEPT ![node] = @ - 1],
   observed |-> IF B.busy[node] = 1 THEN [B.observed EXCEPT ![node] = FALSE]
                ELSE B.observed]

DoResetBusy(B, node) ==
  IF B.busy[node] > 0
  THEN [busy |-> [B.busy EXCEPT ![node] = @ - 1],
        observed |-> IF B.busy[node] = 1 THEN [B.observed EXCEPT ![node] = FALSE]
                     ELSE B.observed]
  ELSE B

BusyNow == [busy |-> busy, observed |-> busyObserved]

\* busySource.cancel(): the cancellation listener of doMarkAsBusy runs
CancelBusy(m) ==
  IF mstate[m] \in {"waiting", "set"} THEN DoResetBusy(BusyNow, mnode[m]) ELSE BusyNow

\* ------------------------------------------------------------------------
\* Initial state: a tree without a root
\* ------------------------------------------------------------------------
TreeInit ==
  /\ root = Undef
  /\ nodes = EmptyStore
  /\ children = [o \in Objs |-> <<>>]
  /\ parent = [o \in Objs |-> Undef]
  /\ previousSibling = [o \in Objs |-> Undef]
  /\ nextSibling = [o \in Objs |-> Undef]
  /\ busy = [o \in Objs |-> 0]
  /\ busyObserved = [o \in Objs |-> FALSE]
  /\ calls = 0
  /\ rpc = [p \in Procs |-> "idle"]
  /\ rtarget = [p \in Procs |-> Undef]
  /\ rtoken = [p \in Procs |-> "none"]
  /\ rpending = [p \in Procs |-> 0]
  /\ settled = NoCall
  /\ rseen = [p \in Procs |-> {}]
  /\ snapNodes = [p \in Procs |-> EmptyStore]
  /\ snapChildren = [p \in Procs |-> <<>>]
  /\ mstate = [m \in Markers |-> "idle"]
  /\ mnode = [m \in Markers |-> Undef]

\* ------------------------------------------------------------------------
\* refresh: from the call to the first await
\* ------------------------------------------------------------------------
Range(s) == {s[i] : i \in 1..Len(s)}

InFlight(q) == rpc[q] \in {"resolving", "listeners"}

\* a new call takes the first slot that is not in flight
SlotFree(p) ==
  /\ rpc[p] = "idle"
  /\ \A q \in Procs : q < p => rpc[q] # "idle"

RefreshTargetAny(target) == target # Undef

\* if (CompositeTreeNode.is(parent))
RefreshTargetOk(target) == IsComposite(target)

\* how a refresh call ended and what its caller gets
Settle(p, exit, result, threw, tok) ==
  [call |-> p, exit |-> exit, result |-> result, threw |-> threw, token |-> tok]

RefreshBegin(p, target, tok, toks, seen, ns) ==
  /\ rpending' = [rpending EXCEPT ![p] = 0]
  /\ rseen' = [seen EXCEPT ![p] = {}]
  /\ IF RefreshTargetOk(target)
     THEN /\ rpc' = [rpc EXCEPT ![p] = "resolving"]
          /\ rtarget' = [rtarget EXCEPT ![p] = target]
          /\ rtoken' = [toks EXCEPT ![p] = tok]
          /\ settled' = NoCall
          /\ snapNodes' = [snapNodes EXCEPT ![p] = IF tok = "none" THEN EmptyStore ELSE ns]
          /\ snapChildren' = [snapChildren EXCEPT ![p] =
                                IF tok = "none" THEN <<>> ELSE children[target]]
          /\ mstate' = [mstate EXCEPT ![p] = "waiting"]
          /\ mnode' = [mnode EXCEPT ![p] = target]
     ELSE /\ rpc' = [rpc EXCEPT ![p] = "idle"]
          /\ rtarget' = [rtarget EXCEPT ![p] = Undef]
          /\ rtoken' = [toks EXCEPT ![p] = "none"]
          /\ settled' = Settle(p, IF target = Undef THEN "noTarget" ELSE "notComposite",
                               Undef, FALSE, tok)
          /\ snapNodes' = [snapNodes EXCEPT ![p] = EmptyStore]
          /\ snapChildren' = [snapChildren EXCEPT ![p] = <<>>]
          /\ mstate' = [mstate EXCEPT ![p] = "idle"]
          /\ mnode' = [mnode EXCEPT ![p] = Undef]

\* tree.refresh(raw, token) called by a client
Refresh(p, raw, withToken) ==
  /\ UNCHANGED <<decoVars, widgetVars>>
  /\ SlotFree(p)
  /\ RefreshBegin(p, IF raw = Undef THEN root ELSE ValidateNode(raw),
                  IF withToken THEN "live" ELSE "none", rtoken, rseen, nodes)
  /\ UNCHANGED <<root, nodes, children, parent, previousSibling, nextSibling,
                 busy, busyObserved>>

RECURSIVE ReachOf(_, _)
ReachOf(r, kids) ==
  IF r = Undef THEN {}
  ELSE {r} \cup UNION {ReachOf(kids[r][i], kids) : i \in 1..Len(kids[r])}

\* node ids are unique within the tree below o
UniqueIds(o) ==
  \A x, y \in ReachOf(o, children) : ObjId(x) = ObjId(y) => x = y

\* tree.root = o
SetRoot(p, o) ==
  /\ UNCHANGED <<decoVars, widgetVars>>
  /\ SlotFree(p)
  /\ UniqueIds(o)
  /\ LET L == AddNode(Links(EmptyStore), children, o)
         toks == [q \in Procs |-> IF rtoken[q] = "root" THEN "cancelled" ELSE rtoken[q]]
         seen == [q \in Procs |-> IF InFlight(q) THEN rseen[q] \cup {"root", "write"}
                                  ELSE rseen[q]]
     IN  /\ root' = o
         /\ nodes' = L.nodes
         /\ parent' = L.parent
         /\ previousSibling' = L.previousSibling
         /\ nextSibling' = L.nextSibling
         /\ RefreshBegin(p, o, "root", toks, seen, L.nodes)
  /\ UNCHANGED <<children, busy, busyObserved>>

\* the caller of refresh cancels the token it passed
CancelToken(p) ==
  /\ UNCHANGED <<decoVars, widgetVars>>
  /\ InFlight(p)
  /\ rtoken[p] = "live"
  /\ rtoken' = [rtoken EXCEPT ![p] = "cancelled"]
  /\ settled' = NoCall
  /\ UNCHANGED <<root, nodes, children, parent, previousSibling, nextSibling,
                 busy, busyObserved, calls, rpc, rtarget, rpending,
                 rseen, snapNodes, snapChildren, mstate, mnode>>

\* ------------------------------------------------------------------------
\* refresh: the ways it ends
\* ------------------------------------------------------------------------
NoReleaseBusy(p) == BusyNow

\* finally { busySource.cancel() }
ReleaseBusy(p) == CancelBusy(p)

Finish(p, exit, result, threw) ==
  /\ rpc' = [rpc EXCEPT ![p] = "idle"]
  /\ settled' = Settle(p, exit, result, threw, rtoken[p])
  /\ rpending' = [rpending EXCEPT ![p] = 0]
  /\ rseen' = [rseen EXCEPT ![p] = {}]
  /\ snapNodes' = [snapNodes EXCEPT ![p] = EmptyStore]
  /\ snapChildren' = [snapChildren EXCEPT ![p] = <<>>]
  /\ busy' = ReleaseBusy(p).busy
  /\ busyObserved' = ReleaseBusy(p).observed
  /\ mstate' = [mstate EXCEPT ![p] = "idle"]
  /\ mnode' = [mnode EXCEPT ![p] = Undef]
  /\ rtarget' = [rtarget EXCEPT ![p] = Undef]
  /\ rtoken' = [rtoken EXCEPT ![p] = "none"]
  /\ UNCHANGED calls

\* setChildren's check that parent belongs to this tree
SetChildrenRejects(target) ==
  LET r == GetRootNode(target)
  IN  nodes[ObjId(r)] # Undef /\ nodes[ObjId(r)] # r

\* if (cancellationToken?.isCancellationRequested) { return; }
AbortsAfterResolve(p) == rtoken[p] = "cancelled"

\* resolveChildren resolved, the token was cancelled meanwhile
ResumeCancelled(p) ==
  /\ UNCHANGED <<decoVars, widgetVars>>
  /\ rpc[p] = "resolving"
  /\ AbortsAfterResolve(p)
  /\ Finish(p, "cancelledAfterResolve", Undef, FALSE)
  /\ UNCHANGED <<root, nodes, children, parent, previousSibling, nextSibling>>

\* resolveChildren resolved, setChildren logs an error and returns undefined
ResumeInvalid(p) ==
  /\ UNCHANGED <<decoVars, widgetVars>>
  /\ rpc[p] = "resolving"
  /\ ~AbortsAfterResolve(p)
  /\ SetChildrenRejects(rtarget[p])
  /\ Finish(p, "invalidTarget", Undef, FALSE)
  /\ UNCHANGED <<root, nodes, children, parent, previousSibling, nextSibling>>

\* resolveChildren rejected: nothing catches it
ResolveReject(p) ==
  /\ UNCHANGED <<decoVars, widgetVars>>
  /\ rpc[p] = "resolving"
  /\ Finish(p, "resolveRejected", Undef, TRUE)
  /\ UNCHANGED <<root, nodes, children, parent, previousSibling, nextSibling>>

RECURSIVE SubtreeIds(_, _)
SubtreeIds(kids, o) ==
  {ObjId(o)} \cup UNION {SubtreeIds(kids, kids[o][i]) : i \in 1..Len(kids[o])}

\* a node object nothing refers to: resolveChildren just created it
Fresh(o) ==
  /\ o # root
  /\ nodes[ObjId(o)] # o
  /\ parent[o] = Undef
  /\ children[o] = <<>>
  /\ busy[o] = 0
  /\ \A q \in Procs : rtarget[q] # o
  /\ \A m \in Markers : mnode[m] # o
  /\ \A x \in Objs : parent[x] # o /\ previousSibling[x] # o /\ nextSibling[x] # o

\* what a resolveChildren implementation may return for t: children it
\* returned before or newly created nodes, with ids unique within the tree
ResolveResults(t) ==
  LET cand == Range(children[t]) \cup {o \in Objs : Fresh(o)}
      seqs == UNION {[1..k -> cand] : k \in 0..MaxKids}
      old == SubtreeIds(children, t)
  IN  {s \in seqs :
         /\ \A i, j \in 1..Len(s) : i < j => ObjId(s[i]) < ObjId(s[j])
         /\ \A i \in 1..Len(s) :
              /\ ObjId(s[i]) # ObjId(t)
              /\ ObjId(s[i]) # ObjId(root)
              /\ s[i] \notin Range(children[t]) =>
                   (nodes[ObjId(s[i])] = Undef \/ ObjId(s[i]) \in old)}

\* setChildren past its check: removeNode, parent.children = children, addNode
InstallChildren(t, kids) ==
  LET kids2 == [children EXCEPT ![t] = kids]
      L == AddNode(Links(RemoveNode(nodes, children, t)), kids2, t)
  IN  [nodes |-> L.nodes, children |-> kids2, parent |-> L.parent,
       previousSibling |-> L.previousSibling, nextSibling |-> L.nextSibling]

\* resolveChildren resolved: setChildren installs the children and fires
\* onNodeRefreshed, whose listeners hand n promises to waitUntil
ResumeInstall(p, n) ==
  /\ UNCHANGED <<decoVars, widgetVars>>
  /\ rpc[p] = "resolving"
  /\ ~AbortsAfterResolve(p)
  /\ ~SetChildrenRejects(rtarget[p])
  /\ \E kids \in ResolveResults(rtarget[p]) :
       LET T == InstallChildren(rtarget[p], kids)
       IN  /\ children' = T.children
           /\ nodes' = T.nodes
           /\ parent' = T.parent
           /\ previousSibling' = T.previousSibling
           /\ nextSibling' = T.nextSibling
  /\ rpc' = [rpc EXCEPT ![p] = "listeners"]
  /\ rpending' = [rpending EXCEPT ![p] = n]
  /\ rseen' = [q \in Procs |-> IF q # p /\ InFlight(q) THEN rseen[q] \cup {"write"}
                               ELSE rseen[q]]
  /\ settled' = NoCall
  /\ UNCHANGED <<root, busy, busyObserved, calls, rtarget, rtoken,
                 snapNodes, snapChildren, mstate, mnode>>

\* a promise handed to waitUntil resolves
ListenerSettle(p) ==
  /\ UNCHANGED <<decoVars, widgetVars>>
  /\ rpc[p] = "listeners"
  /\ rpending[p] > 0
  /\ rpending' = [rpending EXCEPT ![p] = @ - 1]
  /\ settled' = NoCall
  /\ UNCHANGED <<root, nodes, children, parent, previousSibling, nextSibling,
                 busy, busyObserved, calls, rpc, rtarget, rtoken,
                 rseen, snapNodes, snapChildren, mstate, mnode>>

\* a promise handed to waitUntil rejects: setChildren and refresh throw
ListenerReject(p) ==
  /\ UNCHANGED <<decoVars, widgetVars>>
  /\ rpc[p] = "listeners"
  /\ rpending[p] > 0
  /\ Finish(p, "listenerRejected", Undef, TRUE)
  /\ UNCHANGED <<root, nodes, children, parent, previousSibling, nextSibling>>

ListenersNotAwaited(p) == TRUE

\* await WaitUntilEvent.fire(...): every promise handed to waitUntil settled
ListenersAwaited(p) == rpending[p] = 0

\* fireNodeRefreshed fires onChanged, setChildren returns parent, refresh
\* checks the token again
ListenersDone(p) ==
  /\ UNCHANGED <<decoVars, widgetVars>>
  /\ rpc[p] = "listeners"
  /\ ListenersAwaited(p)
  /\ IF rtoken[p] = "cancelled"
     THEN Finish(p, "cancelledAfterSet", Undef, FALSE)
     ELSE Finish(p, "completed", rtarget[p], FALSE)
  /\ UNCHANGED <<root, nodes, children, parent, previousSibling, nextSibling>>

\* the ways refresh ends that fire onChanged
FiresChanged == {"noTarget", "notComposite", "invalidTarget", "cancelledAfterSet",
                 "completed"}

\* ------------------------------------------------------------------------
\* markAsBusy
\* ------------------------------------------------------------------------
refreshVars == <<calls, rpc, rtarget, rtoken, rpending, rseen,
                 snapNodes, snapChildren>>

storeVars == <<root, nodes, children, parent, previousSibling, nextSibling>>

\* tree.markAsBusy(raw, ms, token)
MarkAsBusy(m, raw) ==
  /\ UNCHANGED <<decoVars, widgetVars>>
  /\ m \in CallMarkers
  /\ mstate[m] = "idle"
  /\ ValidateNode(raw) # Undef
  /\ mstate' = [mstate EXCEPT ![m] = "waiting"]
  /\ mnode' = [mnode EXCEPT ![m] = ValidateNode(raw)]
  /\ settled' = NoCall
  /\ UNCHANGED <<storeVars, refreshVars, busy, busyObserved>>

\* the timer of timeout(ms, token) fires: doSetBusy
TimerExpire(m) ==
  /\ UNCHANGED <<decoVars, widgetVars>>
  /\ mstate[m] = "waiting"
  /\ busy' = DoSetBusy(BusyNow, mnode[m]).busy
  /\ busyObserved' = DoSetBusy(BusyNow, mnode[m]).observed
  /\ mstate' = [mstate EXCEPT ![m] = "set"]
  /\ settled' = NoCall
  /\ UNCHANGED <<storeVars, refreshVars, mnode>>

\* the caller of markAsBusy cancels its token: doResetBusy
CancelMark(m) ==
  /\ UNCHANGED <<decoVars, widgetVars>>
  /\ m \in CallMarkers
  /\ mstate[m] \in {"waiting", "set"}
  /\ busy' = CancelBusy(m).busy
  /\ busyObserved' = CancelBusy(m).observed
  /\ mstate' = [mstate EXCEPT ![m] = "idle"]
  /\ mnode' = [mnode EXCEPT ![m] = Undef]
  /\ settled' = NoCall
  /\ UNCHANGED <<storeVars, refreshVars>>

\* ------------------------------------------------------------------------
\* Decorations: one provider and its DecorationProviderWrapper
\* ------------------------------------------------------------------------
Uris == 1..NUris
FetchIds == 1..MaxFetch
DecoVals == {1, 2}      \* the decorations the provider can produce
NoDeco == 0             \* provideDecorations produced undefined

Unknown == [kind |-> "unknown", ref |-> 0]
Request(k) == [kind |-> "request", ref |-> k]
Deco(d) == [kind |-> "deco", ref |-> d]

NoFetch == [uri |-> 0, kind |-> "none", token |-> "none", state |-> "unused"]
HandlerIdle == [pc |-> "idle", call |-> 0, rest |-> <<>>]
NoGot == [op |-> "none", uri |-> 0, incl |-> FALSE, err |-> "none", value |-> <<>>]

DecoInit ==
  /\ data = [u \in Uris |-> Unknown]
  /\ decorations = [u \in Uris |-> NoDeco]
  /\ fetches = [k \in FetchIds |-> NoFetch]
  /\ handler = HandlerIdle
  /\ got = NoGot

Pending(F, k) == F[k].state = "pending"

FreeIds(F) == {k \in FetchIds : F[k].state = "unused"}

NewId(F) == CHOOSE k \in FreeIds(F) : \A j \in FreeIds(F) : k <= j

\* a settled call is forgotten once no cache slot holds its request
Forget(D, F) ==
  [k \in FetchIds |->
     IF F[k].state = "done" /\ \A u \in Uris : D[u] # Request(k) THEN NoFetch ELSE F[k]]

KeepItemAlways(W, u, d) == [W EXCEPT !.data[u] = Deco(d)]

\* keepItem: const deco = data || undefined; this.data.set(uri, deco)
KeepItem(W, u, d) ==
  [W EXCEPT !.data[u] = IF d = NoDeco THEN Unknown ELSE Deco(d)]

\* fetchData, first half: cancel and delete the pending request of the slot
CancelPending(W, u) ==
  IF W.data[u].kind = "request"
  THEN LET k == W.data[u].ref
       IN  [data |-> [W.data EXCEPT ![u] = Unknown],
            fetches |-> IF Pending(W.fetches, k)
                        THEN [W.fetches EXCEPT ![k].token = "cancelled"]
                        ELSE W.fetches]
  ELSE W

\* fetchData, second half: provideDecorations answers at once with d
FetchSync(W, u, d) ==
  LET W1 == KeepItem(CancelPending(W, u), u, d)
  IN  [data |-> W1.data, fetches |-> Forget(W1.data, W1.fetches)]

\* fetchData, second half: provideDecorations answers with a promise
FetchAsync(W, u) ==
  LET W1 == CancelPending(W, u)
      F1 == Forget(W1.data, W1.fetches)
      k == NewId(F1)
  IN  [data |-> [W1.data EXCEPT ![u] = Request(k)],
       fetches |-> [F1 EXCEPT ![k] = [uri |-> u, kind |-> "fetch", token |-> "live",
                                      state |-> "pending"]]]

\* provider.provideDecorations(uri, CancellationToken.None) of the handler
EventCall(W, u) ==
  LET k == NewId(W.fetches)
  IN  [W EXCEPT !.fetches[k] = [uri |-> u, kind |-> "event", token |-> "None",
                                state |-> "pending"]]

WrapperNow == [data |-> data, fetches |-> fetches]

\* ids a fetch needs beyond those it releases
HasIds(n) == Cardinality(FreeIds(fetches)) >= n

\* uri c lies below uri a (uri 2 is a file in directory 1)
IsUnder(c, a) == a = 1 /\ c = 2

Bubbles(d) == d = 2

\* the elements of a set of numbers in ascending order
RECURSIVE Ascending(_)
Ascending(S) ==
  IF S = {} THEN <<>>
  ELSE LET m == CHOOSE x \in S : \A y \in S : x <= y
       IN  <<m>> \o Ascending(S \ {m})

SuperstrOrAncestors(D, u) == Ascending({x \in Uris : x # u /\ D[x].kind = "deco"})

\* findSuperstr(u): the resolved entries below u, in key order
Superstr(D, u) == Ascending({x \in Uris : IsUnder(x, u) /\ D[x].kind = "deco"})

CollectedUnfiltered(D, u, includeChildren) ==
  LET own == IF D[u].kind = "deco" THEN <<D[u].ref>> ELSE <<>>
      sub == Superstr(D, u)
  IN  IF includeChildren THEN own \o [i \in 1..Len(sub) |-> D[sub[i]].ref] ELSE own

\* getOrRetrieve's callbacks as getDecoration filters them: the array that
\* getDecoration returns for one provider
Collected(D, u, includeChildren) ==
  LET own == IF D[u].kind = "deco" THEN <<D[u].ref>> ELSE <<>>
      sub == Superstr(D, u)
      below == SelectSeq([i \in 1..Len(sub) |-> D[sub[i]].ref], Bubbles)
  IN  IF includeChildren THEN own \o below ELSE own

\* getDecoration(u, includeChildren) finds the slot of u filled or pending
GetDecorationHit(u, includeChildren) ==
  /\ data[u] # Unknown
  /\ got' = [op |-> "get", uri |-> u, incl |-> includeChildren, err |-> "none",
             value |-> Collected(data, u, includeChildren)]
  /\ UNCHANGED <<data, decorations, fetches, handler>>
  /\ UNCHANGED <<treeVars, widgetVars>>

\* getDecoration(u, includeChildren) on a cache miss, the provider answering
\* at once with d
GetDecorationSync(u, includeChildren, d) ==
  /\ data[u] = Unknown
  /\ LET W == FetchSync(WrapperNow, u, d)
     IN  /\ data' = W.data
         /\ fetches' = W.fetches
         /\ got' = [op |-> "get", uri |-> u, incl |-> includeChildren, err |-> "none",
                    value |-> Collected(W.data, u, includeChildren)]
  /\ UNCHANGED <<decorations, handler>>
  /\ UNCHANGED <<treeVars, widgetVars>>

\* getDecoration(u, includeChildren) on a cache miss, the provider answering
\* with a promise
GetDecorationAsync(u, includeChildren) ==
  /\ data[u] = Unknown
  /\ HasIds(1)
  /\ LET W == FetchAsync(WrapperNow, u)
     IN  /\ data' = W.data
         /\ fetches' = W.fetches
         /\ got' = [op |-> "get", uri |-> u, incl |-> includeChildren, err |-> "none",
                    value |-> Collected(W.data, u, includeChildren)]
  /\ UNCHANGED <<decorations, handler>>
  /\ UNCHANGED <<treeVars, widgetVars>>

\* provider.onDidChange(undefined): everything is invalidated
ProviderChangeAll ==
  /\ handler.pc = "idle"
  /\ decorations' = [u \in Uris |-> NoDeco]
  /\ data' = [u \in Uris |-> Unknown]
  /\ fetches' = Forget(data', fetches)
  /\ got' = [op |-> "fired", uri |-> 0, incl |-> FALSE, err |-> "none", value |-> <<>>]
  /\ UNCHANGED handler
  /\ UNCHANGED <<treeVars, widgetVars>>

\* one round of the handler's loop: fetchData(uri), then a second
\* provideDecorations call that the handler awaits
HandlerRound(W, us, sync, d) ==
  LET u == Head(us)
      W1 == IF sync THEN FetchSync(W, u, d) ELSE FetchAsync(W, u)
      W2 == EventCall(W1, u)
  IN  [data |-> W2.data, fetches |-> W2.fetches,
       handler |-> [pc |-> "awaiting",
                    call |-> CHOOSE k \in FetchIds :
                               W2.fetches[k].kind = "event" /\ W1.fetches[k].state = "unused",
                    rest |-> Tail(us)]]

\* provider.onDidChange([]): nothing to fetch
ProviderChangeNone ==
  /\ handler.pc = "idle"
  /\ decorations' = [u \in Uris |-> NoDeco]
  /\ got' = [op |-> "fired", uri |-> 0, incl |-> FALSE, err |-> "none", value |-> <<>>]
  /\ UNCHANGED <<data, fetches, handler>>
  /\ UNCHANGED <<treeVars, widgetVars>>

UriLists == UNION {[1..n -> Uris] : n \in 1..NUris}

\* provider.onDidChange(us)
ProviderChange(us, sync, d) ==
  /\ handler.pc = "idle"
  /\ HasIds(2)
  /\ sync \/ d = NoDeco
  /\ LET H == HandlerRound(WrapperNow, us, sync, d)
     IN  /\ data' = H.data
         /\ fetches' = H.fetches
         /\ handler' = H.handler
  /\ decorations' = [u \in Uris |-> NoDeco]
  /\ got' = NoGot
  /\ UNCHANGED <<treeVars, widgetVars>>

CommitsAlways(k) == TRUE

CommitsNever(k) == FALSE

\* if (this.data.get(uri) === request)
Commits(k) == data[fetches[k].uri] = Request(k)

\* the promise of a fetchData call resolves with d
FetchResolve(k, d) ==
  /\ Pending(fetches, k)
  /\ fetches[k].kind = "fetch"
  /\ LET W == IF Commits(k) THEN KeepItem(WrapperNow, fetches[k].uri, d) ELSE WrapperNow
     IN  /\ data' = W.data
         /\ fetches' = Forget(W.data, [W.fetches EXCEPT ![k].state = "done"])
  /\ got' = NoGot
  /\ UNCHANGED <<decorations, handler>>
  /\ UNCHANGED <<treeVars, widgetVars>>

\* the promise of a fetchData call rejects
FetchReject(k, cancelShaped) ==
  /\ Pending(fetches, k)
  /\ fetches[k].kind = "fetch"
  /\ data' = IF ~cancelShaped /\ Commits(k)
             THEN [data EXCEPT ![fetches[k].uri] = Unknown]
             ELSE data
  /\ fetches' = Forget(data', [fetches EXCEPT ![k].state = "done"])
  /\ got' = [op |-> "rejected", uri |-> fetches[k].uri, incl |-> FALSE,
             err |-> IF cancelShaped THEN "Canceled" ELSE "other", value |-> <<>>]
  /\ UNCHANGED <<decorations, handler>>
  /\ UNCHANGED <<treeVars, widgetVars>>

\* the call the handler awaits resolves with d: the handler stores it and
\* goes on with the next uri or fires onDidChangeDecorations
HandlerResume(d, sync, d2) ==
  /\ handler.pc = "awaiting"
  /\ sync \/ d2 = NoDeco
  /\ LET k == handler.call
         u == fetches[k].uri
         F == [fetches EXCEPT ![k] = NoFetch]
         decs == IF d # NoDeco THEN [decorations EXCEPT ![u] = d] ELSE decorations
     IN  /\ decorations' = decs
         /\ IF handler.rest = <<>>
            THEN /\ handler' = HandlerIdle
                 /\ fetches' = F
                 /\ data' = data
                 /\ got' = [op |-> "fired", uri |-> 0, incl |-> FALSE, err |-> "none",
                            value |-> decs]
            ELSE /\ Cardinality(FreeIds(F)) >= 2
                 /\ LET H == HandlerRound([data |-> data, fetches |-> F],
                                          handler.rest, sync, d2)
                    IN  /\ data' = H.data
                        /\ fetches' = H.fetches
                        /\ handler' = H.handler
                 /\ got' = NoGot
  /\ UNCHANGED <<treeVars, widgetVars>>

\* the call the handler awaits rejects: the handler ends without firing
HandlerReject ==
  /\ handler.pc = "awaiting"
  /\ fetches' = [fetches EXCEPT ![handler.call] = NoFetch]
  /\ handler' = HandlerIdle
  /\ got' = NoGot
  /\ UNCHANGED <<data, decorations>>
  /\ UNCHANGED <<treeVars, widgetVars>>

NextDeco ==
  \/ \E u \in Uris, c \in BOOLEAN : GetDecorationHit(u, c)
  \/ \E u \in Uris, c \in BOOLEAN, d \in DecoVals \cup {NoDeco} : GetDecorationSync(u, c, d)
  \/ \E u \in Uris, c \in BOOLEAN : GetDecorationAsync(u, c)
  \/ ProviderChangeAll
  \/ ProviderChangeNone
  \/ \E us \in UriLists, sync \in BOOLEAN, d \in DecoVals \cup {NoDeco} :
       ProviderChange(us, sync, d)
  \/ \E k \in FetchIds, d \in DecoVals \cup {NoDeco} : FetchResolve(k, d)
  \/ \E k \in FetchIds, c \in BOOLEAN : FetchReject(k, c)
  \/ \E d, d2 \in DecoVals \cup {NoDeco}, sync \in BOOLEAN : HandlerResume(d, sync, d2)
  \/ HandlerReject

\* ------------------------------------------------------------------------
\* SourceTree: the children of the source node, rebuilt from its elements
\* ------------------------------------------------------------------------
SourceIds == 1..NSourceIds
SourceObjs == 1..(2 * NSourceIds)

\* what getElements yields for an id: no element, an element without
\* elements of its own, or one with elements whose expandByDefault is true
\* ("open") or false or missing ("closed")
Elements == {"absent", "leaf", "open", "closed"}

\* no node of that id in the Node Store
NoNode == [obj |-> 0, selected |-> FALSE, expandable |-> FALSE, expanded |-> FALSE]

NothingMade == [op |-> "none", before |-> [i \in SourceIds |-> NoNode],
                elements |-> [i \in SourceIds |-> "absent"]]

SourceInit ==
  /\ sourceNodes = [i \in SourceIds |-> NoNode]
  /\ made = NothingMade

\* the object a node literal of toNode becomes: one that no node of the
\* store is, and a different one for each id
NewObj(S, id) == Ascending(SourceObjs \ {S[i].obj : i \in SourceIds})[id]

ToNodeAlwaysNew(S, id, element) ==
  [obj |-> NewObj(S, id), selected |-> FALSE,
   expandable |-> element # "leaf", expanded |-> element = "open"]

\* toNode(element, index, parent), the element having the id `id`
ToNode(S, id, element) ==
  LET existing == S[id]
      updated == existing.obj # 0
      expand == element = "open"
  IN  IF element # "leaf"
      THEN IF updated
           THEN [existing EXCEPT !.expandable = TRUE,
                                 !.expanded = IF existing.expandable THEN @ ELSE expand]
           ELSE [obj |-> NewObj(S, id), selected |-> FALSE,
                 expandable |-> TRUE, expanded |-> expand]
      ELSE IF updated
           THEN [existing EXCEPT !.expandable = FALSE, !.expanded = FALSE]
           ELSE [obj |-> NewObj(S, id), selected |-> FALSE,
                 expandable |-> FALSE, expanded |-> FALSE]

\* refresh of the source node: resolveChildren maps the elements to nodes,
\* setChildren drops the old children from the Node Store and adds the new
SourceRefresh(elements) ==
  /\ sourceNodes' = [i \in SourceIds |->
                       IF elements[i] = "absent" THEN NoNode
                       ELSE ToNode(sourceNodes, i, elements[i])]
  /\ made' = [op |-> "refresh", before |-> sourceNodes, elements |-> elements]
  /\ UNCHANGED <<treeVars, decoVars, viewVars, moveVars>>

\* the selection service sets or clears the selected flag of a node
SourceSelect(i) ==
  /\ sourceNodes[i].obj # 0
  /\ sourceNodes' = [sourceNodes EXCEPT ![i].selected = ~@]
  /\ made' = NothingMade
  /\ UNCHANGED <<treeVars, decoVars, viewVars, moveVars>>

\* the expansion service sets or clears the expanded flag of a node
SourceExpand(i) ==
  /\ sourceNodes[i].expandable
  /\ sourceNodes' = [sourceNodes EXCEPT ![i].expanded = ~@]
  /\ made' = NothingMade
  /\ UNCHANGED <<treeVars, decoVars, viewVars, moveVars>>

NextSource ==
  \/ \E elements \in [SourceIds -> Elements] : SourceRefresh(elements)
  \/ \E i \in SourceIds : SourceSelect(i)
  \/ \E i \in SourceIds : SourceExpand(i)

\* ------------------------------------------------------------------------
\* TreeModelImpl over a resolved tree: iteration, selection and expansion
\* ------------------------------------------------------------------------
ViewNodes == 1..NView
ViewRoot == modelRoot
NoViewNode == 0

\* a -> [b, c, d, e]
FlatTree ==
  [n \in ViewNodes |-> IF n = 1 THEN <<2, 3, 4, 5>> ELSE <<>>]

\* root -> [dir1 -> [file1, file2], dir2]
DeepTree ==
  [n \in ViewNodes |-> CASE n = 1 -> <<2, 5>> [] n = 2 -> <<3, 4>> [] OTHER -> <<>>]

\* root -> [dir1 -> [file1], dir2]; node 5 is not in the tree
PartTree ==
  [n \in ViewNodes |-> CASE n = 1 -> <<2, 4>> [] n = 2 -> <<3>> [] OTHER -> <<>>]

ViewTrees == {FlatTree, DeepTree, PartTree}

\* a root without children, or no node at all
NoTree == [n \in ViewNodes |-> <<>>]

\* the node with visible: false, if any
Hidden == {NoViewNode, 1, 4}

\* run: 1 if the operation found the selection empty, 2 if it repeats, on the
\* same node, the operation of a step that found the selection empty
NothingDone == [op |-> "none", node |-> NoViewNode, run |-> 0]

ViewInit(tree, hidden, top) ==
  /\ viewChildren = tree
  /\ visible = [n \in ViewNodes |-> n # hidden]
  /\ expanded = [n \in ViewNodes |-> FALSE]
  /\ selectedNodes = <<>>
  /\ selected = [n \in ViewNodes |-> FALSE]
  /\ did = NothingDone
  /\ modelRoot = top
  /\ focusedNode = NoViewNode
  /\ filteredNodes = <<>>
  /\ history = [nodes |-> <<>>, index |-> 0]

\* node.parent
ViewParent(n) ==
  IF \E p \in ViewNodes : n \in Range(viewChildren[p])
  THEN CHOOSE p \in ViewNodes : n \in Range(viewChildren[p])
  ELSE NoViewNode

\* CompositeTreeNode.isAncestor
RECURSIVE IsAncestor(_, _)
IsAncestor(p, child) ==
  IF child = NoViewNode THEN FALSE
  ELSE IF ViewParent(child) = p THEN TRUE
  ELSE IsAncestor(p, ViewParent(child))

\* the node exists in the tree
InTree(n) == ViewRoot # NoViewNode /\ (n = ViewRoot \/ IsAncestor(ViewRoot, n))

\* ExpandableTreeNode.is
IsExpandable(n) == viewChildren[n] # <<>>

Position(order, n) == CHOOSE i \in 1..Len(order) : order[i] = n

\* the next sibling of the node or, if it is a last child, of the nearest
\* ancestor that has one
RECURSIVE FindNextSibling(_)
FindNextSibling(n) ==
  LET p == ViewParent(n)
      i == Position(viewChildren[p], n)
  IN  IF p = NoViewNode THEN NoViewNode
      ELSE IF i < Len(viewChildren[p]) THEN viewChildren[p][i + 1]
      ELSE FindNextSibling(p)

\* new TopDownTreeIterator(node, { pruneCollapsed }), as the sequence it
\* yields: the node, then the nodes after it in pre-order, children in array
\* order; with pruneCollapsed the children of a node whose expanded is not
\* true are skipped
RECURSIVE TopDownTreeIterator(_, _)
TopDownTreeIterator(node, pruneCollapsed) ==
  LET next == IF viewChildren[node] # <<>> /\ ~(pruneCollapsed /\ ~expanded[node])
              THEN viewChildren[node][1]
              ELSE FindNextSibling(node)
  IN  <<node>> \o (IF next = NoViewNode THEN <<>>
                   ELSE TopDownTreeIterator(next, pruneCollapsed))

IsVisibleAlways(n) == TRUE

\* SelectableTreeNode.isVisible
IsVisible(n) == n # NoViewNode /\ visible[n]

CreateUnprunedIteratorForNode(node) == TopDownTreeIterator(node, FALSE)

\* createForwardIteratorForNode(node)
CreateForwardIteratorForNode(node) == TopDownTreeIterator(node, TRUE)

\* the tree's flattened visible order
VisibleOrder == SelectSeq(CreateForwardIteratorForNode(ViewRoot), IsVisible)

\* the nodes of the order from a to b or from b to a, in the order's order
Span(order, a, b) ==
  LET i == Position(order, a)
      j == Position(order, b)
  IN  IF i <= j THEN SubSeq(order, i, j) ELSE SubSeq(order, j, i)

Without(nodes_, n) == SelectSeq(nodes_, LAMBDA x : x # n)

SelectionTypes == {"DEFAULT", "TOGGLE", "RANGE"}

\* only a node of the tree that satisfies SelectableTreeNode.isVisible may
\* be added
MayBeSelected(n) == InTree(n) /\ IsVisible(n)

ToggledAppendOnly(sel, n) == Append(sel, n)

\* TOGGLE: if the node is present, remove it; else append it
Toggled(sel, n) == IF n \in Range(sel) THEN Without(sel, n) ELSE Append(sel, n)

\* RANGE: the span of the visible order between the most recently added
\* node and the target; nothing happens without a previous selection or
\* when one of the two is not in the visible order
Ranged(sel, n) ==
  IF sel = <<>> \/ sel[Len(sel)] \notin Range(VisibleOrder) \/ n \notin Range(VisibleOrder)
  THEN sel
  ELSE Span(VisibleOrder, sel[Len(sel)], n)

\* selectedNodes after addSelection({ node, type })
Selection(sel, n, type) ==
  IF ~MayBeSelected(n) THEN sel
  ELSE CASE type = "DEFAULT" -> <<n>>
         [] type = "TOGGLE" -> Toggled(sel, n)
         [] type = "RANGE" -> Ranged(sel, n)

\* addSelection({ node, type })
AddSelection(n, type) ==
  /\ selectedNodes' = Selection(selectedNodes, n, type)
  /\ selected' = [x \in ViewNodes |-> x \in Range(selectedNodes')]
  /\ did' = [op |-> type, node |-> n,
             run |-> IF did.op = type /\ did.node = n /\ did.run = 1 THEN 2
                     ELSE IF selectedNodes = <<>> THEN 1 ELSE 0]
  /\ UNCHANGED <<viewChildren, visible, expanded, moveVars>>
  /\ UNCHANGED <<treeVars, decoVars, sourceVars>>

\* selectNode(node)
SelectNode(n) == AddSelection(n, "DEFAULT")

\* toggleNode(node)
ToggleNode(n) == AddSelection(n, "TOGGLE")

SelectRangeAsDefault(n) == AddSelection(n, "DEFAULT")

\* selectRange(node)
SelectRange(n) == AddSelection(n, "RANGE")

\* clearSelection()
ClearSelection ==
  /\ selectedNodes' = <<>>
  /\ selected' = [x \in ViewNodes |-> FALSE]
  /\ did' = [op |-> "clear", node |-> NoViewNode, run |-> 0]
  /\ UNCHANGED <<viewChildren, visible, expanded, moveVars>>
  /\ UNCHANGED <<treeVars, decoVars, sourceVars>>

\* expandNode(node): the expansion service sets expanded and fires
\* onExpansionChanged; handleExpansion does nothing for an expanded node
ExpandNode(n) ==
  /\ InTree(n) /\ IsExpandable(n) /\ ~expanded[n]
  /\ expanded' = [expanded EXCEPT ![n] = TRUE]
  /\ did' = [op |-> "expand", node |-> n, run |-> 0]
  /\ UNCHANGED <<viewChildren, visible, selectedNodes, selected, moveVars>>
  /\ UNCHANGED <<treeVars, decoVars, sourceVars>>

\* collapseNode(node): the expansion service clears expanded and fires
\* onExpansionChanged; handleExpansion selects the node if it is the
\* ancestor of a selected node
CollapseNodeKeepingSelection(n) ==
  /\ InTree(n) /\ IsExpandable(n) /\ expanded[n]
  /\ expanded' = [expanded EXCEPT ![n] = FALSE]
  /\ did' = [op |-> "collapse", node |-> n,
             run |-> IF \E s \in Range(selectedNodes) : IsAncestor(n, s) THEN 1 ELSE 0]
  /\ UNCHANGED <<viewChildren, visible, selectedNodes, selected, moveVars>>
  /\ UNCHANGED <<treeVars, decoVars, sourceVars>>

\* collapseNode(n) with the model's handler of onExpansionChanged; did.run is
\* 1 when a selected node was below n
CollapseNode(n) ==
  /\ InTree(n) /\ IsExpandable(n) /\ expanded[n]
  /\ expanded' = [expanded EXCEPT ![n] = FALSE]
  /\ selectedNodes' =
       IF (\E s \in Range(selectedNodes) : IsAncestor(n, s)) /\ IsVisible(n)
       THEN Selection(selectedNodes, n, "DEFAULT")
       ELSE selectedNodes
  /\ selected' = [x \in ViewNodes |-> x \in Range(selectedNodes')]
  /\ did' = [op |-> "collapse", node |-> n,
             run |-> IF \E s \in Range(selectedNodes) : IsAncestor(n, s) THEN 1 ELSE 0]
  /\ UNCHANGED <<viewChildren, visible, moveVars>>
  /\ UNCHANGED <<treeVars, decoVars, sourceVars>>

\* ------------------------------------------------------------------------
\* Moving through the tree: the iterators the model creates and the nodes it
\* takes from them. An iterator is the sequence it yields; the iterator that
\* is undefined is the empty sequence.
\* ------------------------------------------------------------------------

\* the last node of the top-down order at or below n
RECURSIVE LastLeaf(_, _)
LastLeaf(n, pruneCollapsed) ==
  IF viewChildren[n] = <<>> \/ (pruneCollapsed /\ ~expanded[n]) THEN n
  ELSE LastLeaf(viewChildren[n][Len(viewChildren[n])], pruneCollapsed)

\* new BottomUpTreeIterator(node, { pruneCollapsed }): the mirror of the
\* top-down order; after a node comes the last leaf under its previous
\* sibling, or its parent when it is a first child
RECURSIVE BottomUpTreeIterator(_, _)
BottomUpTreeIterator(node, pruneCollapsed) ==
  LET p    == ViewParent(node)
      i    == Position(viewChildren[p], node)
      prev == IF p = NoViewNode THEN NoViewNode
              ELSE IF i > 1 THEN LastLeaf(viewChildren[p][i - 1], pruneCollapsed)
              ELSE p
  IN  <<node>> \o (IF prev = NoViewNode THEN <<>>
                   ELSE BottomUpTreeIterator(prev, pruneCollapsed))

Reverse(s) == [i \in 1..Len(s) |-> s[Len(s) + 1 - i]]

\* Iterators.cycle(elements, start): the elements as a ring, from start (from
\* the first element when start is undefined); the ring never ends, the
\* sequence is its first lap and the start again
Cycle(elements, start) ==
  LET i   == IF start \in Range(elements) THEN Position(elements, start) ELSE 1
      lap == SubSeq(elements, i, Len(elements)) \o SubSeq(elements, 1, i - 1)
  IN  Append(lap, lap[1])

Filtered == filteredNodes # <<>>

CreateBackwardTreeIterator(node) ==
  IF ~Filtered
  THEN IF node # NoViewNode THEN BottomUpTreeIterator(node, FALSE) ELSE <<>>
  ELSE IF node # NoViewNode /\ node \notin Range(filteredNodes) THEN <<>>
  ELSE Cycle(Reverse(filteredNodes), node)

CreateBackwardIterator(node) ==
  IF ~Filtered
  THEN IF node # NoViewNode THEN BottomUpTreeIterator(node, TRUE) ELSE <<>>
  ELSE IF node # NoViewNode /\ node \notin Range(filteredNodes) THEN <<>>
  ELSE Cycle(Reverse(filteredNodes), node)

CreateTreeIterator(node) ==
  IF ~Filtered
  THEN IF node # NoViewNode THEN TopDownTreeIterator(node, FALSE) ELSE <<>>
  ELSE IF node # NoViewNode /\ node \notin Range(filteredNodes) THEN <<>>
  ELSE Cycle(filteredNodes, node)

CreateIteratorUnfiltered(node) ==
  IF node # NoViewNode THEN CreateForwardIteratorForNode(node) ELSE <<>>

CreateIterator(node) ==
  IF ~Filtered
  THEN IF node # NoViewNode THEN CreateForwardIteratorForNode(node) ELSE <<>>
  ELSE IF node # NoViewNode /\ node \notin Range(filteredNodes) THEN <<>>
  ELSE Cycle(filteredNodes, node)

DoGetNodeUnskipped(iterator) == IF iterator = <<>> THEN NoViewNode ELSE iterator[1]

\* two next() calls; the second result, or undefined when the iterator is done
DoGetNode(iterator) == IF Len(iterator) < 2 THEN NoViewNode ELSE iterator[2]

IsVisibleSelectableNode(node) == IsVisible(node)

\* doGetNextNode(iterator, criterion), whose criterion is
\* isVisibleSelectableNode at every call: the first call's result is dropped,
\* then the first node that passes the criterion is returned, or undefined
\* when the iterator is done
DoGetNextNode(iterator) ==
  LET rest == SelectSeq(Tail(iterator), IsVisibleSelectableNode)
  IN  IF iterator = <<>> THEN NoViewNode
      ELSE IF rest = <<>> THEN NoViewNode
      ELSE rest[1]

\* doGetNextNode over a ring none of whose nodes passes the criterion does
\* not return
NeverReturns(iterator) ==
  Filtered /\ iterator # <<>> /\ \A n \in Range(filteredNodes) : ~IsVisible(n)

\* getPrevNode(node = this.getFocusedNode())
GetPrevNode(node) == DoGetNode(CreateBackwardTreeIterator(node))

GetNextNodeOrAfterRoot(node) ==
  DoGetNode(CreateTreeIterator(IF node = NoViewNode THEN ViewRoot ELSE node))

\* getNextNode(node = this.getFocusedNode())
GetNextNode(node) == DoGetNode(CreateTreeIterator(node))

GetNextSelectableNodeUnskipped(node) ==
  DoGetNextNode(<<node>> \o CreateIterator(node))

\* getNextSelectableNode(node = this.getFocusedNode() ?? this.root)
GetNextSelectableNode(node) ==
  DoGetNextNode(CreateIterator(node))

\* getPrevSelectableNode(node = this.getFocusedNode())
GetPrevSelectableNode(node) ==
  IF node = NoViewNode THEN GetNextSelectableNode(ViewRoot)
  ELSE DoGetNextNode(CreateBackwardIterator(node))

\* ------------------------------------------------------------------------
\* The model's operations that move the selection, open a node or toggle
\* its expansion
\* ------------------------------------------------------------------------

\* TreeFocusService.setFocus(node); the focus is kept apart from the
\* selection
SetFocus(n) ==
  /\ n = NoViewNode \/ InTree(n)
  /\ focusedNode' = n
  /\ did' = [op |-> "focus", node |-> NoViewNode, run |-> 0]
  /\ UNCHANGED <<modelRoot, filteredNodes, history>>
  /\ UNCHANGED <<viewChildren, visible, expanded, selectedNodes, selected>>
  /\ UNCHANGED <<treeVars, decoVars, sourceVars>>

\* TreeSearch.filter(pattern): the nodes that match, in tree order
SetFilter(f) ==
  /\ \A n \in Range(f) : InTree(n)
  /\ filteredNodes' = f
  /\ did' = [op |-> "filter", node |-> NoViewNode, run |-> 0]
  /\ UNCHANGED <<modelRoot, focusedNode, history>>
  /\ UNCHANGED <<viewChildren, visible, expanded, selectedNodes, selected>>
  /\ UNCHANGED <<treeVars, decoVars, sourceVars>>

MoveSelectionOrClear(op, node, type) ==
  /\ selectedNodes' = IF node = NoViewNode THEN <<>>
                      ELSE Selection(selectedNodes, node, type)
  /\ selected' = [x \in ViewNodes |-> x \in Range(selectedNodes')]
  /\ did' = [op |-> op, node |-> NoViewNode, run |-> 0]
  /\ UNCHANGED <<viewChildren, visible, expanded, moveVars>>
  /\ UNCHANGED <<treeVars, decoVars, sourceVars>>

\* the operation op found the node (or none) and added it to the selection
\* with the type; nothing else changes, and did names the operation
MoveSelection(op, node, type) ==
  /\ selectedNodes' = IF node = NoViewNode THEN selectedNodes
                      ELSE Selection(selectedNodes, node, type)
  /\ selected' = [x \in ViewNodes |-> x \in Range(selectedNodes')]
  /\ did' = [op |-> op, node |-> NoViewNode, run |-> 0]
  /\ UNCHANGED <<viewChildren, visible, expanded, moveVars>>
  /\ UNCHANGED <<treeVars, decoVars, sourceVars>>

SelectPrev == MoveSelection("selectPrev", GetPrevNode(focusedNode), "DEFAULT")

SelectPrevNode(type) ==
  /\ ~NeverReturns(IF focusedNode = NoViewNode THEN CreateIterator(ViewRoot)
                   ELSE CreateBackwardIterator(focusedNode))
  /\ MoveSelection("selectPrevNode", GetPrevSelectableNode(focusedNode), type)

SelectNext == MoveSelection("selectNext", GetNextNode(focusedNode), "DEFAULT")

\* this.getFocusedNode() ?? this.root
FocusedOrRoot == IF focusedNode # NoViewNode THEN focusedNode ELSE ViewRoot

SelectNextNode(type) ==
  /\ ~NeverReturns(CreateIterator(FocusedOrRoot))
  /\ MoveSelection("selectNextNode", GetNextSelectableNode(FocusedOrRoot), type)

\* SelectableTreeNode.getVisibleParent(node)
RECURSIVE GetVisibleParent(_)
GetVisibleParent(node) ==
  IF node = NoViewNode THEN NoViewNode
  ELSE IF IsVisible(ViewParent(node)) THEN ViewParent(node)
  ELSE GetVisibleParent(ViewParent(node))

SelectParent ==
  MoveSelection("selectParent", GetVisibleParent(focusedNode), "DEFAULT")

\* TreeExpansionService.toggleNodeExpansion(node) on the expansion and the
\* selection st: an expanded node is collapsed, and the model's handler of
\* the collapse selects it if it is visible and above a selected node; a
\* collapsed node is expanded
ToggleIn(st, node) ==
  IF ~(InTree(node) /\ IsExpandable(node)) THEN st
  ELSE IF ~st.expanded[node] THEN [st EXCEPT !.expanded[node] = TRUE]
  ELSE [expanded |-> [st.expanded EXCEPT ![node] = FALSE],
        selectedNodes |->
          IF (\E x \in Range(st.selectedNodes) : IsAncestor(node, x)) /\ IsVisible(node)
          THEN Selection(st.selectedNodes, node, "DEFAULT")
          ELSE st.selectedNodes]

RECURSIVE ToggleEach(_, _)
ToggleEach(st, ns) ==
  IF ns = <<>> THEN st ELSE ToggleEach(ToggleIn(st, Head(ns)), Tail(ns))

\* the state after toggleNodeExpansion(raw) ran its loop over raw, or over the
\* selected nodes when raw is undefined, as the operation op
DoToggleNodeExpansion(op, raw, fired) ==
  LET st == ToggleEach([expanded |-> expanded, selectedNodes |-> selectedNodes],
                       IF raw # NoViewNode THEN <<raw>> ELSE selectedNodes)
  IN  /\ expanded' = st.expanded
      /\ selectedNodes' = st.selectedNodes
      /\ selected' = [x \in ViewNodes |-> x \in Range(selectedNodes')]
      /\ did' = [op |-> op, node |-> fired, run |-> 0]
      /\ UNCHANGED <<viewChildren, visible, moveVars>>
      /\ UNCHANGED <<treeVars, decoVars, sourceVars>>

ToggleNodeExpansion(raw) == DoToggleNodeExpansion("toggle", raw, raw)

OpenNodeGivenOnly(raw) ==
  IF raw # NoViewNode
  THEN DoToggleNodeExpansion("open", raw, raw)
  ELSE /\ did' = [op |-> "open", node |-> NoViewNode, run |-> 0]
       /\ UNCHANGED <<viewChildren, visible, expanded, selectedNodes, selected, moveVars>>
       /\ UNCHANGED <<treeVars, decoVars, sourceVars>>

\* openNode(raw): did.node is the node onOpenNode fired with, if it fired
OpenNode(raw) ==
  LET node == IF raw # NoViewNode THEN raw ELSE focusedNode
  IN  IF node # NoViewNode
      THEN DoToggleNodeExpansion("open", node, node)
      ELSE /\ did' = [op |-> "open", node |-> NoViewNode, run |-> 0]
           /\ UNCHANGED <<viewChildren, visible, expanded, selectedNodes, selected, moveVars>>
           /\ UNCHANGED <<treeVars, decoVars, sourceVars>>

NextMove ==
  \/ \E n \in ViewNodes \cup {NoViewNode} : SetFocus(n)
  \/ \E f \in {<<>>, <<2, 4, 5>>} : SetFilter(f)
  \/ SelectPrev
  \/ \E type \in {"DEFAULT", "TOGGLE"} : SelectPrevNode(type)
  \/ SelectNext
  \/ \E type \in {"DEFAULT", "TOGGLE"} : SelectNextNode(type)
  \/ SelectParent
  \/ \E n \in ViewNodes : ExpandNode(n)

NextOpen ==
  \/ \E n \in ViewNodes \cup {NoViewNode} : SetFocus(n)
  \/ \E n \in ViewNodes : ToggleNode(n)
  \/ \E n \in ViewNodes \cup {NoViewNode} : ToggleNodeExpansion(n)
  \/ \E n \in ViewNodes \cup {NoViewNode} : OpenNode(n)

\* ------------------------------------------------------------------------
\* Navigation: the history of the nodes navigated to and its cursor
\* ------------------------------------------------------------------------

DoNavigateKeepingSelection(op, node, h) ==
  /\ history' = h
  /\ modelRoot' = node
  /\ expanded' = IF IsExpandable(node) THEN [expanded EXCEPT ![node] = TRUE]
                 ELSE expanded
  /\ did' = [op |-> op, node |-> node, run |-> 0, from |-> modelRoot]
  /\ UNCHANGED <<selectedNodes, selected>>
  /\ UNCHANGED <<viewChildren, visible, focusedNode, filteredNodes>>
  /\ UNCHANGED <<treeVars, decoVars, sourceVars>>

\* doNavigate(node) after the history became h: the node is the root, it is
\* expanded if it is expandable and selected if it is visible; did.from is the
\* root before the step
DoNavigate(op, node, h) ==
  /\ history' = h
  /\ modelRoot' = node
  /\ expanded' = IF IsExpandable(node) THEN [expanded EXCEPT ![node] = TRUE]
                 ELSE expanded
  /\ selectedNodes' = IF IsVisible(node) THEN <<node>> ELSE selectedNodes
  /\ selected' = [x \in ViewNodes |-> x \in Range(selectedNodes')]
  /\ did' = [op |-> op, node |-> node, run |-> 0, from |-> modelRoot]
  /\ UNCHANGED <<viewChildren, visible, focusedNode, filteredNodes>>
  /\ UNCHANGED <<treeVars, decoVars, sourceVars>>

\* navigateTo(node): push(node) drops the history after the cursor, appends
\* the node and moves the cursor onto it
NavigateTo(node) ==
  /\ node # NoViewNode
  /\ history.index < MaxHistory
  /\ DoNavigate("navigateTo", node,
                [nodes |-> Append(SubSeq(history.nodes, 1, history.index), node),
                 index |-> history.index + 1])

\* canNavigateBackward(): there is an entry before the cursor
CanNavigateBackward == history.index > 1

\* navigateForward(): advance() yields a node unless the cursor is on the last
\* entry
NavigateForward ==
  /\ history.index < Len(history.nodes)
  /\ DoNavigate("navigateForward", history.nodes[history.index + 1],
                [history EXCEPT !.index = @ + 1])

\* navigateBackward(): retreat() yields a node unless the cursor is on the
\* first entry
NavigateBackward ==
  /\ CanNavigateBackward
  /\ DoNavigate("navigateBackward", history.nodes[history.index - 1],
                [history EXCEPT !.index = @ - 1])

NextNav ==
  \/ \E n \in ViewNodes : NavigateTo(n)
  \/ NavigateForward
  \/ NavigateBackward
  \/ \E n \in ViewNodes : SelectNode(n)

NextView ==
  \/ \E n \in ViewNodes : SelectNode(n)
  \/ \E n \in ViewNodes : ToggleNode(n)
  \/ \E n \in ViewNodes : SelectRange(n)
  \/ ClearSelection
  \/ \E n \in ViewNodes : ExpandNode(n)
  \/ \E n \in ViewNodes : CollapseNode(n)

Init == TreeInit /\ DecoInit /\ SourceInit /\ ViewInit(FlatTree, NoViewNode, 1)

InitView ==
  /\ TreeInit /\ DecoInit /\ SourceInit
  /\ \E tree \in ViewTrees, hidden \in Hidden : ViewInit(tree, hidden, 1)

\* ------------------------------------------------------------------------
\* Spec: one refresh call at a time, with busy markers and their timers
\* ------------------------------------------------------------------------
NoneInFlight == \A q \in Procs : ~InFlight(q)

Next ==
  \/ \E p \in Procs, raw \in Objs \cup {Undef}, t \in BOOLEAN :
       NoneInFlight /\ Refresh(p, raw, t) /\ UNCHANGED calls
  \/ \E p \in Procs, o \in Objs \cup {Undef} :
       NoneInFlight /\ SetRoot(p, o) /\ UNCHANGED calls
  \/ \E p \in Procs : CancelToken(p)
  \/ \E p \in Procs : ResumeCancelled(p)
  \/ \E p \in Procs : ResolveReject(p)
  \/ \E p \in Procs, n \in 0..MaxListeners : ResumeInstall(p, n)
  \/ \E p \in Procs : ListenerSettle(p)
  \/ \E p \in Procs : ListenerReject(p)
  \/ \E p \in Procs : ListenersDone(p)
  \/ \E m \in CallMarkers, raw \in Objs : MarkAsBusy(m, raw)
  \/ \E m \in Markers : TimerExpire(m)
  \/ \E m \in CallMarkers : CancelMark(m)

Spec == Init /\ [][Next]_vars

\* ------------------------------------------------------------------------
\* SpecRace: refresh calls and root assignments that overlap, MaxCalls of
\* them, each settling before its busy timer fires
\* ------------------------------------------------------------------------
Budget == calls < MaxCalls /\ calls' = calls + 1

NextRace ==
  \/ \E p \in Procs, raw \in Objs \cup {Undef}, t \in BOOLEAN :
       Budget /\ Refresh(p, raw, t)
  \/ \E p \in Procs, o \in Objs \cup {Undef} : Budget /\ SetRoot(p, o)
  \/ \E p \in Procs : CancelToken(p)
  \/ \E p \in Procs : ResumeCancelled(p)
  \/ \E p \in Procs : ResumeInvalid(p)
  \/ \E p \in Procs : ResolveReject(p)
  \/ \E p \in Procs, n \in 0..MaxListeners : ResumeInstall(p, n)
  \/ \E p \in Procs : ListenerSettle(p)
  \/ \E p \in Procs : ListenerReject(p)
  \/ \E p \in Procs : ListenersDone(p)

SpecRace == Init /\ [][NextRace]_vars

\* ------------------------------------------------------------------------
\* SpecDeco: the decorations service on its own
\* ------------------------------------------------------------------------
SpecDeco == Init /\ [][NextDeco]_vars

SpecSource == Init /\ [][NextSource]_vars

SpecView == InitView /\ [][NextView]_vars

\* ------------------------------------------------------------------------
\* SpecMove: focus, filter and the operations that move through the tree,
\* over the tree root -> [dir1 -> [file1, file2], dir2], a root without
\* children and a model without a root
\* ------------------------------------------------------------------------
InitMove ==
  /\ TreeInit /\ DecoInit /\ SourceInit
  /\ \/ \E hidden \in Hidden : ViewInit(DeepTree, hidden, 1)
     \/ \E top \in {1, NoViewNode} : ViewInit(NoTree, NoViewNode, top)

SpecMove == InitMove /\ [][NextMove]_vars

\* ------------------------------------------------------------------------
\* SpecOpen: opening nodes and toggling their expansion, with a focus and a
\* selection of several nodes, over root -> [dir1 -> [file1], dir2]
\* ------------------------------------------------------------------------
InitOpen ==
  /\ TreeInit /\ DecoInit /\ SourceInit
  /\ \E hidden \in Hidden : ViewInit(PartTree, hidden, 1)

SpecOpen == InitOpen /\ [][NextOpen]_vars

\* ------------------------------------------------------------------------
\* SpecNav: navigating to nodes, back and forward, over the same tree, with
\* the root set and nothing navigated to yet
\* ------------------------------------------------------------------------
SpecNav == InitOpen /\ [][NextNav]_vars

\* ------------------------------------------------------------------------
\* Properties of refresh and of the busy markers
\* ------------------------------------------------------------------------
CancelledExits == {"cancelledAfterResolve", "cancelledAfterSet"}

\* C1: a refresh whose token is observed cancelled at an await returns
\* undefined and leaves the Node Store and the children of its target as they
\* were when it was called (nothing else having written to the tree meanwhile)
C1_CancelledRefreshLeavesTree ==
  [][\A p \in Procs :
       (/\ InFlight(p)
        /\ settled'.call = p
        /\ settled'.exit \in CancelledExits
        /\ "write" \notin rseen[p])
       => /\ settled'.result = Undef
          /\ nodes' = snapNodes[p]
          /\ children'[rtarget[p]] = snapChildren[p]]_vars

\* a refresh is called with a token, installs children that differ from the
\* ones its target had, and is cancelled while the listeners are awaited
C1_Witness ==
  \E p \in Procs :
    /\ rpc[p] = "listeners"
    /\ rtoken[p] = "cancelled"
    /\ "write" \notin rseen[p]
    /\ children[rtarget[p]] # snapChildren[p]

\* C2: when the root was replaced while a refresh awaited resolveChildren
\* and the target is no longer in the tree of the current root, the late
\* result is discarded: the target keeps its children and every node in the
\* Node Store belongs to the tree of the current root
C2_StaleResultDiscarded ==
  [][\A p \in Procs :
       (/\ rpc[p] = "resolving"
        /\ rpc'[p] # "resolving"
        /\ "root" \in rseen[p]
        /\ rtarget[p] \notin ReachOf(root, children))
       => /\ children'[rtarget[p]] = children[rtarget[p]]
          /\ \A o \in Objs : nodes'[ObjId(o)] = o => o \in ReachOf(root', children')]_vars

\* a stale refresh has installed its result: its target is in the Node Store
\* although the current root does not reach it
C2_Witness ==
  \E p \in Procs :
    /\ rpc[p] = "listeners"
    /\ "root" \in rseen[p]
    /\ rtarget[p] \notin ReachOf(root, children)
    /\ nodes[ObjId(rtarget[p])] = rtarget[p]

\* C3: while a marker that has set the busy state of a node is not
\* cancelled, onDidChangeBusy has not shown the node as not busy
C3_BusyWhileMarkerLive ==
  \A m \in Markers : mstate[m] = "set" => busyObserved[mnode[m]]

\* two markers on one node, one has set the busy state, the other was
\* cancelled before its timer fired
C3_Witness ==
  \E m \in Markers : mstate[m] = "set" /\ busy[mnode[m]] = 0

ListenersPending(q) == rpc[q] = "listeners" /\ rpending[q] > 0

\* C6 as stated: while the listeners of an installed refresh are pending,
\* onChanged is not fired, whatever refresh would fire it
C6_NoChangedWhileListenersPending ==
  settled.exit \in FiresChanged => \A q \in Procs : ~ListenersPending(q)

\* C6: a refresh that installed children does not fire onChanged while the
\* promises of its own onNodeRefreshed listeners are pending
C6_OwnChangedAfterListeners ==
  [][\A p \in Procs :
       ListenersPending(p) => ~(settled'.call = p /\ settled'.exit \in FiresChanged)]_vars

\* a refresh has fired onChanged after its listeners settled, while the
\* listeners of another refresh are still pending
C6_Witness ==
  /\ settled.exit = "completed"
  /\ \E q \in Procs : q # settled.call /\ ListenersPending(q)

\* C7: when resolveChildren rejects, refresh rejects, the Node Store and the
\* children arrays are unchanged, and the marker of that refresh is released:
\* it is no longer pending and a count it had set is taken back
C7_RejectedResolvePropagates ==
  [][\A p \in Procs :
       (rpc[p] = "resolving" /\ settled'.call = p /\ settled'.exit = "resolveRejected")
       => /\ settled'.threw
          /\ nodes' = nodes
          /\ children' = children
          /\ mstate'[p] = "idle"
          /\ (mstate[p] = "set" /\ busy[rtarget[p]] > 0)
               => busy'[rtarget[p]] = busy[rtarget[p]] - 1]_vars

\* a refresh of a root that has children was rejected by resolveChildren
\* and its marker is gone
C7_Witness ==
  /\ settled.exit = "resolveRejected"
  /\ settled.threw
  /\ root # Undef
  /\ children[root] # <<>>
  /\ mstate[settled.call] = "idle"

\* C8: a refresh reaches resolveChildren only with a composite node of the
\* Node Store (or the root) as target; a refresh whose target is undefined
\* or a leaf resolves to undefined without throwing, and changes neither the
\* Node Store nor any children array nor any busy marker
C8_NonCompositeRefreshIsNoop ==
  [][\A p \in Procs :
       /\ (rpc[p] = "idle" /\ rpc'[p] = "resolving")
            => /\ IsComposite(rtarget'[p])
               /\ nodes'[ObjId(rtarget'[p])] = rtarget'[p]
       /\ (rpc[p] = "idle" /\ settled'.call = p /\ settled'.token # "root")
            => /\ settled'.exit \in {"noTarget", "notComposite"}
               /\ settled'.result = Undef
               /\ ~settled'.threw
               /\ nodes' = nodes
               /\ children' = children
               /\ mstate' = mstate
               /\ busy' = busy]_vars

\* refresh was called on a leaf of a tree whose root has children
C8_Witness ==
  /\ settled.exit = "notComposite"
  /\ settled.token # "root"
  /\ root # Undef
  /\ children[root] # <<>>

\* C9: getNode(id) returns a node exactly when the node is reachable from
\* the current root through children arrays
C9_StoreIsReachableSet ==
  \A o \in Objs : nodes[ObjId(o)] = o <=> o \in ReachOf(root, children)

\* position of n among the children of par, 0 when absent
IndexIn(kids, n) ==
  IF \E i \in 1..Len(kids) : kids[i] = n
  THEN CHOOSE i \in 1..Len(kids) : kids[i] = n
  ELSE 0

\* C10: every non-root node of the Node Store occurs exactly once among the
\* children of its parent, and its sibling pointers are its neighbours there
C10_LinksMatchChildren ==
  \A n \in Objs :
    (nodes[ObjId(n)] = n /\ n # root) =>
      /\ parent[n] # Undef
      /\ LET kids == children[parent[n]]
             i == IndexIn(kids, n)
         IN  /\ Cardinality({j \in 1..Len(kids) : kids[j] = n}) = 1
             /\ previousSibling[n] = IF i > 1 THEN kids[i - 1] ELSE Undef
             /\ nextSibling[n] = IF i < Len(kids) THEN kids[i + 1] ELSE Undef

\* ------------------------------------------------------------------------
\* Properties of the decorations service
\* ------------------------------------------------------------------------
InFlightFor(u) ==
  {k \in FetchIds : Pending(fetches, k) /\ fetches[k].uri = u
                    /\ fetches[k].token # "cancelled"}

\* C4: for every uri at most one provideDecorations call whose token is not
\* cancelled is in flight
C4_AtMostOneInFlight ==
  \A u \in Uris : Cardinality(InFlightFor(u)) <= 1

\* two calls for one uri are in flight, neither cancelled
C4_Witness ==
  \E u \in Uris : Cardinality(InFlightFor(u)) = 2

IsFetch(F, k) == Pending(F, k) /\ F[k].kind = "fetch"

\* C5: a fetch issued for a uri while an earlier fetch for it is pending
\* cancels the token of the earlier one, and a fetch that settles while the
\* slot of its uri does not hold its own request leaves the cache unchanged
C5_SecondFetchSupersedes ==
  [][/\ \A j, k \in FetchIds :
          (/\ j # k
           /\ IsFetch(fetches, j)
           /\ ~Pending(fetches, k)
           /\ IsFetch(fetches', k)
           /\ fetches'[k].uri = fetches[j].uri)
          => fetches'[j].token = "cancelled"
     /\ \A k \in FetchIds :
          (IsFetch(fetches, k) /\ ~Pending(fetches', k) /\ ~Commits(k))
          => data' = data]_vars

\* two fetches for one uri are pending, the earlier one orphaned with a live
\* token
C5_Witness ==
  \E j, k \in FetchIds :
    /\ j # k
    /\ IsFetch(fetches, j) /\ IsFetch(fetches, k)
    /\ fetches[j].uri = fetches[k].uri
    /\ fetches[j].token = "live" /\ fetches[k].token = "live"

\* ------------------------------------------------------------------------
\* Properties of the root and of the busy count
\* ------------------------------------------------------------------------
\* C11: the current root has no parent, and it is the only node of the Node
\* Store without one
C11_OnlyRootHasNoParent ==
  /\ root # Undef => parent[root] = Undef
  /\ \A n \in Objs : (nodes[ObjId(n)] = n /\ n # root) => parent[n] # Undef

\* a node that was attached as a child has been made the root: it is in the
\* Node Store and still points to its former parent
C11_Witness ==
  /\ root # Undef
  /\ nodes[ObjId(root)] = root
  /\ parent[root] # Undef

\* C12: node.busy is never negative, and no step lowers it by more than one
C12_BusyCountNeverNegative ==
  /\ [](\A o \in Objs : busy[o] >= 0)
  /\ [][\A o \in Objs : busy'[o] >= busy[o] - 1]_vars

\* a refresh has just settled and cancelled its marker, which had not set the
\* busy state, on a node whose count is zero
C12_Witness ==
  /\ settled.exit \in {"completed", "resolveRejected"}
  /\ root # Undef
  /\ busy[root] = 0
  /\ \E m \in CallMarkers : mnode[m] = root /\ mstate[m] = "waiting"

\* C14: for one provider getDecoration(uri, includeChildren) returns the
\* resolved decoration of uri itself whether or not it bubbles, and after it,
\* only when includeChildren is set, the resolved decorations of the uris
\* below uri that have bubble: true, and nothing else
C14_OwnAndBubblingDescendants ==
  got.op = "get" =>
    LET u == got.uri
        own == IF data[u].kind = "deco" THEN 1 ELSE 0
        under == {c \in Uris : IsUnder(c, u) /\ data[c].kind = "deco" /\ data[c].ref = 2}
    IN  /\ own = 1 => (Len(got.value) >= 1 /\ got.value[1] = data[u].ref)
        /\ Len(got.value) = own + (IF got.incl THEN Cardinality(under) ELSE 0)
        /\ \A i \in (own + 1)..Len(got.value) :
             \E c \in under : data[c].ref = got.value[i]

\* the directory is asked with includeChildren while the file below it holds
\* a resolved decoration: one that bubbles is returned after the
\* directory's own, one that does not bubble is left out
C14_Witness ==
  /\ got.op = "get" /\ got.uri = 1 /\ got.incl
  /\ data[1] = Deco(1)
  /\ \/ data[2] = Deco(2) /\ got.value = <<1, 2>>
     \/ data[2] = Deco(1) /\ got.value = <<1>>

C16_RejectionEvictsCurrentOnly ==
  [][\A k \in FetchIds, c \in BOOLEAN :
       FetchReject(k, c) =>
         LET u == fetches[k].uri
         IN  /\ (~c /\ data[u] = Request(k)) =>
                  /\ data' = [data EXCEPT ![u] = Unknown]
                  /\ Collected(data', u, FALSE) = <<>>
             /\ data[u] # Request(k) => data' = data]_vars

\* a rejection that is not cancellation-shaped has just evicted the slot of
\* its uri
C16_Witness ==
  /\ got.op = "rejected" /\ got.err = "other"
  /\ data[got.uri] = Unknown
  /\ \E u \in Uris : u # got.uri /\ data[u].kind = "deco"

\* ------------------------------------------------------------------------
\* Properties of the SourceTree
\* ------------------------------------------------------------------------
\* C13 as stated: a node that resolveChildren produces for an id the Node
\* Store already holds is the same object with the same selected and the
\* same expanded flag; one for an id the store does not hold is a new
\* object with selected false
C13_ReusedNodeKeepsBothFlags ==
  made.op = "refresh" =>
    \A i \in SourceIds :
      sourceNodes[i].obj # 0 =>
        IF made.before[i].obj # 0
        THEN /\ sourceNodes[i].obj = made.before[i].obj
             /\ sourceNodes[i].selected = made.before[i].selected
             /\ sourceNodes[i].expandable = made.before[i].expandable
             /\ sourceNodes[i].expanded = made.before[i].expanded
        ELSE /\ sourceNodes[i].obj \notin {made.before[j].obj : j \in SourceIds}
             /\ ~sourceNodes[i].selected

\* C13, amended: the reused node keeps its selected flag always, and its
\* expanded flag if it was expandable and its element still has elements;
\* it loses the flag when the element has none, and gets the element's
\* expandByDefault when it was not expandable before
C13_ReusedNodeKeepsSelected ==
  made.op = "refresh" =>
    \A i \in SourceIds :
      sourceNodes[i].obj # 0 =>
        IF made.before[i].obj # 0
        THEN /\ sourceNodes[i].obj = made.before[i].obj
             /\ sourceNodes[i].selected = made.before[i].selected
             /\ sourceNodes[i].expandable = (made.elements[i] # "leaf")
             /\ (made.before[i].expandable /\ made.elements[i] # "leaf")
                  => sourceNodes[i].expanded = made.before[i].expanded
             /\ (~made.before[i].expandable /\ made.elements[i] # "leaf")
                  => sourceNodes[i].expanded = (made.elements[i] = "open")
        ELSE /\ sourceNodes[i].obj \notin {made.before[j].obj : j \in SourceIds}
             /\ ~sourceNodes[i].selected

\* a refresh has reused a selected, expanded node whose element has no
\* elements any more, next to a node of an id the store did not hold
C13_Witness ==
  /\ made.op = "refresh"
  /\ \E i, j \in SourceIds :
       /\ made.before[i].obj # 0 /\ made.before[i].selected /\ made.before[i].expanded
       /\ made.elements[i] = "leaf"
       /\ sourceNodes[i].obj = made.before[i].obj
       /\ sourceNodes[i].selected /\ ~sourceNodes[i].expandable
       /\ made.before[j].obj = 0 /\ sourceNodes[j].obj # 0

\* ------------------------------------------------------------------------
\* Properties of the selection and of the iterators
\* ------------------------------------------------------------------------
\* C17: selectRange(n), with a selection whose most recently added node and
\* n are both in the visible order, replaces the selection with the nodes of
\* the visible order between the two, in display order; with the visible
\* order [a, b, c, d, e], selecting a and then range-selecting d leaves
\* exactly a, b, c, d
C17_RangeIsVisibleSpan ==
  [][\A n \in ViewNodes :
       SelectRange(n) =>
         /\ (/\ selectedNodes # <<>>
             /\ InTree(n) /\ visible[n]
             /\ n \in Range(VisibleOrder)
             /\ selectedNodes[Len(selectedNodes)] \in Range(VisibleOrder))
              => \E lo, hi \in 1..Len(VisibleOrder) :
                   /\ {VisibleOrder[lo], VisibleOrder[hi]}
                        = {selectedNodes[Len(selectedNodes)], n}
                   /\ lo <= hi
                   /\ selectedNodes' = [k \in 1..(hi - lo + 1) |-> VisibleOrder[lo + k - 1]]
                   /\ \A x \in ViewNodes : selected'[x] <=> x \in Range(selectedNodes')
         /\ (/\ VisibleOrder = <<1, 2, 3, 4, 5>>
             /\ did.op = "DEFAULT" /\ did.node = 1 /\ selectedNodes = <<1>>
             /\ n = 4)
              => selectedNodes' = <<1, 2, 3, 4>>]_vars

\* a was selected and d range-selected in the visible order [a, b, c, d, e]
C17_Witness ==
  /\ VisibleOrder = <<1, 2, 3, 4, 5>>
  /\ did.op = "RANGE" /\ did.node = 4
  /\ selectedNodes = <<1, 2, 3, 4>>
  /\ selected = [x \in ViewNodes |-> x # 5]

\* C18: toggleNode(n) of a visible node of the tree appends n to an empty
\* selection and sets its selected flag; toggleNode(n) once more, right
\* after, leaves the selection empty and the flag false
C18_ToggleTwiceIsEmpty ==
  [][\A n \in ViewNodes :
       (ToggleNode(n) /\ InTree(n) /\ visible[n]) =>
         /\ selectedNodes = <<>> => (selectedNodes' = <<n>> /\ selected'[n])
         /\ (did.op = "TOGGLE" /\ did.node = n /\ did.run = 1)
              => (selectedNodes' = <<>> /\ \A x \in ViewNodes : ~selected'[x])]_vars

\* a node was toggled twice in a row, the first time with nothing selected
C18_Witness ==
  /\ did.op = "TOGGLE" /\ did.run = 2
  /\ selectedNodes = <<>>
  /\ ~selected[did.node]

\* C19: selectNode, toggleNode and selectRange of a node that is not in the
\* tree or not visible change neither selectedNodes nor any selected flag,
\* and every selected node is a visible node of the tree
C19_UnselectableIsNoop ==
  /\ [](\A s \in Range(selectedNodes) : InTree(s) /\ visible[s])
  /\ [][\A n \in ViewNodes :
          ((SelectNode(n) \/ ToggleNode(n) \/ SelectRange(n))
             /\ (~InTree(n) \/ ~visible[n]))
            => UNCHANGED <<selectedNodes, selected>>]_vars

\* a node that is not in the tree or not visible was the argument of a
\* selection while other nodes were selected
C19_Witness ==
  /\ did.op \in SelectionTypes
  /\ ~InTree(did.node) \/ ~visible[did.node]
  /\ Len(selectedNodes) >= 2
  /\ \A x \in ViewNodes : selected[x] <=> x \in Range(selectedNodes)

\* C20: the iterator of createForwardIteratorForNode (top-down,
\* pruneCollapsed: true), started at a collapsed node n or at an ancestor
\* of n, yields no descendant of n; it yields n if every node from the start
\* down to n's parent is expanded
C20_NothingBelowCollapsed ==
  \A start, n \in ViewNodes :
    (InTree(start) /\ (start = n \/ IsAncestor(start, n))
       /\ IsExpandable(n) /\ ~expanded[n]) =>
      /\ \A d \in ViewNodes :
           IsAncestor(n, d) => d \notin Range(CreateForwardIteratorForNode(start))
      /\ (\A a \in ViewNodes :
            ((a = start \/ IsAncestor(start, a)) /\ IsAncestor(a, n)) => expanded[a])
           => n \in Range(CreateForwardIteratorForNode(start))

\* below the expanded root a node with children is collapsed after it was
\* expanded: the iterator from the root yields it and its sibling but none
\* of its children
C20_Witness ==
  /\ did.op = "collapse" /\ did.node = 2
  /\ viewChildren = DeepTree
  /\ expanded[1] /\ ~expanded[2]
  /\ CreateForwardIteratorForNode(1) = <<1, 2, 5>>

\* C21: in the tree root -> [dir1 -> [file1, file2], dir2] with dir1
\* expanded, every node visible and no filter, getNextSelectableNode(dir1) is
\* file1, getNextSelectableNode(file1) is file2, and
\* getNextSelectableNode(file2) leaves dir1 and is dir2
C21_NextSelectableWalksDown ==
  (/\ viewChildren = DeepTree /\ ViewRoot = 1 /\ expanded[2] /\ ~Filtered
   /\ visible[3] /\ visible[4] /\ visible[5]) =>
    /\ GetNextSelectableNode(2) = 3
    /\ GetNextSelectableNode(3) = 4
    /\ GetNextSelectableNode(4) = 5

\* dir1 was expanded in the scenario's tree and the node after file2 is dir2
C21_Witness ==
  /\ did.op = "expand" /\ did.node = 2
  /\ viewChildren = DeepTree /\ ViewRoot = 1 /\ expanded[2] /\ ~Filtered
  /\ visible[3] /\ visible[4] /\ visible[5]
  /\ GetNextSelectableNode(4) = 5

\* C26: with no filter, getNextNode(node) and getPrevNode(node) of a node of
\* the tree drop the first element of the unpruned top-down (bottom-up)
\* iterator, which is the node itself, and return the element after it,
\* whether or not that element is visible or below a collapsed node, or
\* undefined when the iterator yields nothing after the node
C26_NextAndPrevSkipTheStart ==
  \A n \in ViewNodes :
    (~Filtered /\ InTree(n)) =>
      LET down == TopDownTreeIterator(n, FALSE)
          up   == BottomUpTreeIterator(n, FALSE)
      IN  /\ down[1] = n /\ up[1] = n
          /\ GetNextNode(n) = IF Len(down) > 1 THEN down[2] ELSE NoViewNode
          /\ GetPrevNode(n) = IF Len(up) > 1 THEN up[2] ELSE NoViewNode

\* selectNext ran with the focus on file1 and no filter: the node after file1
\* is file2, which is hidden; the node before file1 is dir1, the node after
\* the last node dir2 is undefined
C26_Witness ==
  /\ did.op = "selectNext" /\ focusedNode = 3 /\ ~Filtered
  /\ viewChildren = DeepTree /\ ~visible[4] /\ ~expanded[2]
  /\ GetNextNode(3) = 4 /\ GetPrevNode(3) = 2
  /\ GetNextNode(5) = NoViewNode /\ GetPrevNode(1) = NoViewNode

C28_FilteredMoveStaysInFilter ==
  [][\A type \in SelectionTypes :
       (/\ Filtered /\ did'.op \in {"selectNextNode", "selectPrevNode"}
        /\ (SelectNextNode(type) \/ SelectPrevNode(type))) =>
         LET first == filteredNodes[1]
             last  == filteredNodes[Len(filteredNodes)]
         IN  /\ (Range(selectedNodes') \ Range(selectedNodes)) \subseteq Range(filteredNodes)
             /\ FocusedOrRoot \notin Range(filteredNodes) => selectedNodes' = selectedNodes
             /\ (/\ SelectNextNode(type) /\ type = "DEFAULT"
                 /\ focusedNode = last /\ IsVisible(first)) => selectedNodes' = <<first>>
             /\ (/\ SelectPrevNode(type) /\ type = "DEFAULT"
                 /\ focusedNode = first /\ IsVisible(last)) => selectedNodes' = <<last>>
  ]_vars

\* with the filter [dir1, file2, dir2] and the focus on dir2, its last node,
\* selectNextNode selected dir1, its first node
C28_Witness ==
  /\ did.op = "selectNextNode"
  /\ filteredNodes = <<2, 4, 5>> /\ focusedNode = 5
  /\ selectedNodes = <<2>>

\* C23: a step of selectNext, selectPrev, selectNextNode, selectPrevNode or
\* selectParent that finds no node to move to completes and leaves the
\* selection as it was: without a root, with a root that has no children,
\* from the last (first) node of the order, and without a visible ancestor
C23_NothingToMoveToIsNoop ==
  [][\A type \in SelectionTypes :
       LET bare == ViewRoot = NoViewNode \/ viewChildren = NoTree
           nothing ==
             \/ /\ did'.op = "selectNext"
                /\ bare \/ GetNextNode(focusedNode) = NoViewNode
                /\ SelectNext
             \/ /\ did'.op = "selectPrev"
                /\ bare \/ GetPrevNode(focusedNode) = NoViewNode
                /\ SelectPrev
             \/ /\ did'.op = "selectNextNode"
                /\ bare \/ GetNextSelectableNode(FocusedOrRoot) = NoViewNode
                /\ SelectNextNode(type)
             \/ /\ did'.op = "selectPrevNode"
                /\ bare \/ GetPrevSelectableNode(focusedNode) = NoViewNode
                /\ SelectPrevNode(type)
             \/ /\ did'.op = "selectParent"
                /\ bare \/ \A a \in ViewNodes : IsAncestor(a, focusedNode) => ~visible[a]
                /\ SelectParent
       IN  nothing => (selectedNodes' = selectedNodes /\ selected' = selected)
  ]_vars

\* file1 was selected, then selectNext ran with the focus on dir2, the last
\* node of the tree, and the selection is still file1
C23_Witness ==
  /\ did.op = "selectNext" /\ ~Filtered
  /\ viewChildren = DeepTree /\ focusedNode = 5
  /\ GetNextNode(focusedNode) = NoViewNode
  /\ selectedNodes = <<3>>

C25_ToggleWithoutNodeTogglesLastOnly ==
  [][(/\ did'.op = "toggle" /\ Len(selectedNodes) >= 2
      /\ ToggleNodeExpansion(NoViewNode)) =>
       LET last == selectedNodes[Len(selectedNodes)]
       IN  /\ IsExpandable(last) => expanded'[last] # expanded[last]
           /\ \A n \in Range(selectedNodes) \ {last} : expanded'[n] = expanded[n]
  ]_vars

\* toggleNodeExpansion() ran without a node while the root and dir1 were
\* selected, dir1 last, and the root is expanded too
C25_Witness ==
  /\ did.op = "toggle" /\ did.node = NoViewNode
  /\ selectedNodes = <<1, 2>>
  /\ expanded[1] /\ expanded[2]

\* C30: a collapseNode step on a visible node n above a selected node leaves
\* exactly n selected (a DEFAULT selection of n), so no selected node is
\* below the collapsed node afterwards
C30_CollapseSelectsAncestorOfSelected ==
  [][\A n \in ViewNodes :
       (/\ did'.op = "collapse" /\ did'.node = n
        /\ IsVisible(n) /\ (\E x \in Range(selectedNodes) : IsAncestor(n, x))
        /\ CollapseNode(n)) =>
         /\ selectedNodes' = <<n>>
         /\ \A x \in ViewNodes : selected'[x] <=> x = n
         /\ \A x \in Range(selectedNodes') : ~IsAncestor(n, x)
  ]_vars

\* dir1 was collapsed while a node below it was selected, and dir1 alone is
\* selected
C30_Witness ==
  /\ did.op = "collapse" /\ did.node = 2 /\ did.run = 1
  /\ viewChildren = DeepTree /\ visible[2] /\ ~expanded[2]
  /\ selectedNodes = <<2>>

\* C29: once the promise of a pending request settles (it resolves, or it
\* rejects with whatever error), the slot of its uri no longer holds that
\* request
C29_SettledRequestLeavesSlot ==
  [][\A k \in FetchIds :
       (\/ \E d \in DecoVals \cup {NoDeco} : FetchResolve(k, d)
        \/ \E c \in BOOLEAN : FetchReject(k, c)) =>
         data'[fetches[k].uri] # Request(k)
  ]_vars

\* a request rejected with a cancellation-shaped error while it was the value
\* of its slot: the promise has settled and the slot still holds the request
C29_Witness ==
  /\ got.op = "rejected" /\ got.err = "Canceled"
  /\ data[got.uri].kind = "request"
  /\ fetches[data[got.uri].ref].state = "done"

\* C22 as claimed: a navigateTo(n) step makes n the root and leaves
\* canNavigateBackward() true; a navigateBackward() step that follows it
\* makes the root before the navigateTo the root again and leaves exactly n
\* selected
C22_NavigateToAndBack ==
  [][/\ \A n \in ViewNodes :
          (did'.op = "navigateTo" /\ NavigateTo(n)) =>
            (modelRoot' = n /\ CanNavigateBackward')
     /\ (did.op = "navigateTo" /\ did'.op = "navigateBackward" /\ NavigateBackward) =>
          (modelRoot' = did.from /\ selectedNodes' = <<did.node>>)
  ]_vars

\* C22 amended: a navigateTo(n) step makes n the root, and
\* canNavigateBackward() is true after it exactly if a node had been
\* navigated to before; a navigateBackward() step that follows it makes the
\* root before the navigateTo the root again and selects that root, not n,
\* if it is visible (the selection stays as it was if it is not)
C22_BackRestoresAndSelectsRoot ==
  [][/\ \A n \in ViewNodes :
          (did'.op = "navigateTo" /\ NavigateTo(n)) =>
            /\ modelRoot' = n
            /\ CanNavigateBackward' <=> (history.index >= 1)
     /\ (did.op = "navigateTo" /\ did'.op = "navigateBackward" /\ NavigateBackward) =>
          /\ modelRoot' = did.from
          /\ selectedNodes' = IF IsVisible(did.from) THEN <<did.from>> ELSE selectedNodes
  ]_vars

\* the root was navigated to, then dir1, then navigateBackward ran: the root
\* is the original root again, and it is the selected node
C22_Witness ==
  /\ did.op = "navigateBackward" /\ did.from = 2 /\ did.node = 1
  /\ history = [nodes |-> <<1, 2>>, index |-> 1]
  /\ modelRoot = 1 /\ visible[1]
  /\ selectedNodes = <<1>>

====
